---- MODULE Spec2Model ----
(***************************************************************************)
(* Model of the Milvus adapter of gptbot (milvus/milvus.go).               *)
(*                                                                         *)
(* The adapter owns a client handle to one collection of a Milvus server.  *)
(* The model keeps the state of that collection, and for every caller      *)
(* (goroutine) the operation it is executing, its position in it, the      *)
(* client calls the operation has issued so far and what it returned.      *)
(* Every action is the code between two client calls, the call included.   *)
(*                                                                         *)
(* float64 and float32 values are modelled by the integers they hold:      *)
(* every integer below 2^53 is a float64, and a float32 holds only the     *)
(* integers its 24-bit significand can represent.                          *)
(***************************************************************************)
EXTENDS Integers, Sequences, FiniteSets, TLC

\* ------------------------------------------------------------ bounds ----
MaxSections == 2
MaxOps == 4
MaxResults == 2
MaxTopK == 2

\* ------------------------------------------------- program constants ----
idCol == "id"
titleCol == "title"
headingCol == "heading"
contentCol == "content"
embeddingCol == "embedding"

Nil == ""

DefaultAddr == "localhost:19530"
DefaultDim == 1536

\* Config.init: the defaults of Addr and Dim.
CfgInit(cfg) ==
  [cfg EXCEPT !.Addr = IF cfg.Addr = "" THEN DefaultAddr ELSE cfg.Addr,
              !.Dim = IF cfg.Dim = 0 THEN DefaultDim ELSE cfg.Dim]

\* The configuration NewMilvus is given, after cfg.init().
Cfg == CfgInit([CollectionName |-> "docs", Addr |-> "", Dim |-> 0])

\* --------------------------------------------------------- float32 ------
Pow24 == 16777216

\* float32(x) of a float64 holding the integer x, 0 <= x < 2^25: exact up to
\* 2^24, above it rounded to the nearest even significand.
Float32Of(x) ==
  IF x <= Pow24 THEN x
  ELSE IF x % 2 = 0 THEN x
  ELSE IF (x - 1) % 4 = 0 THEN x - 1 ELSE x + 1

\* xslices.Float64ToNumber[float32]: element-wise conversion.
Float64ToNumber(s) == [i \in 1..Len(s) |-> Float32Of(s[i])]

\* ------------------------------------------------------------ inputs ----
\* Two sections with pairwise different fields; the first embedding holds a
\* value float32 cannot represent.
Corpus ==
  << [Title |-> "t1", Heading |-> "h1", Content |-> "c1", Embedding |-> <<16777217, 1>>],
     [Title |-> "t2", Heading |-> "h2", Content |-> "c2", Embedding |-> <<2, 3>>] >>

CorpusAt(k) == Corpus[((k - 1) % Len(Corpus)) + 1]

\* The section sequences handed to Insert: n consecutive sections of the
\* corpus (cyclically) from either start.
SectionInputs ==
  { [i \in 1..n |-> CorpusAt(start + i - 1)] : n \in 0..MaxSections, start \in 1..Len(Corpus) }

QueryEmbeddings == { <<16777217, 1>>, <<2, 3>> }
TopKs == 1..MaxTopK

\* The file system LoadJSON reads: a name that cannot be read, a file that is
\* no JSON array of sections, and one file per section sequence.
FileNames ==
  { <<"missing.json", <<>>>>, <<"malformed.json", <<>>>> }
    \cup { <<"sections.json", s>> : s \in SectionInputs }

\* os.ReadFile: the bytes of the file, or an error.
ReadFile(filename) ==
  IF filename[1] = "missing.json" THEN [err |-> "ErrNotExist", data |-> <<"", <<>>>>]
  ELSE IF filename[1] = "malformed.json" THEN [err |-> Nil, data |-> <<"garbage", <<>>>>]
  ELSE [err |-> Nil, data |-> <<"json", filename[2]>>]

\* json.Unmarshal into []gptbot.Section.
Unmarshal(data) ==
  IF data[1] = "json" THEN [err |-> Nil, sections |-> data[2]]
  ELSE [err |-> "ErrSyntax", sections |-> <<>>]

Callers == {"a", "b"}

\* ------------------------------------------------------------- state ----
VARIABLES
  exists,   \* the collection exists on the server
  loaded,   \* the collection is loaded into memory (FALSE: released)
  indexed,  \* the embedding column has an index
  rows,     \* the rows the collection holds, in insertion order
  handle,   \* some NewMilvus has returned a *Milvus
  active,   \* the callers (goroutines) that use the adapter
  call,     \* per caller: the operation it runs or ran last
  nops      \* number of operations started

vars == <<exists, loaded, indexed, rows, handle, active, call, nops>>

\* A caller that has not called anything yet.
NoCall ==
  [op |-> "none", pc |-> "done", arg |-> <<>>, sections |-> <<>>, issued |-> <<>>,
   result |-> <<>>, err |-> Nil, m |-> FALSE, sims |-> <<>>, panic |-> FALSE]

\* An unrecovered panic ends the process, and every caller with it.
Crashed == \E c \in Callers : call[c].panic

CanStart(c) == c \in active /\ ~Crashed /\ call[c].pc = "done" /\ nops < MaxOps

AtPc(c, pc) == c \in active /\ ~Crashed /\ call[c].pc = pc

\* One client call as the operation's log keeps it.
Issued(name, args, err) == [name |-> name, coll |-> Cfg.CollectionName, args |-> args, err |-> err]

NoArgs == [none |-> TRUE]

\* The rows the collection may hold before the adapter is constructed.
OldRows ==
  << [id |-> 0, title |-> "t0", heading |-> "h0", content |-> "c0", embedding |-> <<7, 7>>] >>

Init ==
  /\ exists \in BOOLEAN
  /\ loaded \in (IF exists THEN BOOLEAN ELSE {FALSE})
  /\ indexed = FALSE
  /\ rows \in (IF exists THEN {<<>>, OldRows} ELSE {<<>>})
  /\ handle = FALSE
  /\ active = {"a"}
  /\ call = [c \in Callers |-> NoCall]
  /\ nops = 0

\* ------------------------------------------------------- NewMilvus ------
\* What createCollectionIfNotExists does once HasCollection has answered:
\* "fail" (return the error), "keep" (return nil) or "create".
\* A variant that creates the collection whatever HasCollection answered.
AfterHasCollectionAlwaysCreate(has, err) ==
  IF err # Nil THEN "fail" ELSE "create"

\* A variant that does not look at the error of HasCollection.
AfterHasCollectionIgnoreErr(has, err) ==
  IF has THEN "keep" ELSE "create"

AfterHasCollection(has, err) ==
  IF err # Nil THEN "fail" ELSE IF has THEN "keep" ELSE "create"

\* The error NewMilvus returns after ReleaseCollection returned err: none, the
\* result is discarded.
NewMilvusReleaseResult(err) == Nil

\* NewMilvus up to client.NewGrpcClient.
NewMilvusConnect(c) ==
  /\ CanStart(c)
  /\ \E err \in {Nil, "ErrConnect"} :
       call' = [call EXCEPT ![c] =
                  [NoCall EXCEPT !.op = "NewMilvus",
                                 !.issued = <<Issued("NewGrpcClient", [addr |-> Cfg.Addr], err)>>,
                                 !.pc = IF err # Nil THEN "done" ELSE "nm_release",
                                 !.err = err]]
  /\ nops' = nops + 1
  /\ UNCHANGED <<exists, loaded, indexed, rows, handle, active>>

\* m.client.ReleaseCollection in NewMilvus.
NewMilvusRelease(c) ==
  /\ AtPc(c, "nm_release")
  /\ \E fail \in BOOLEAN :
       LET err == IF fail \/ ~exists THEN "ErrReleaseCollection" ELSE Nil
           ret == NewMilvusReleaseResult(err)
       IN /\ loaded' = IF err = Nil THEN FALSE ELSE loaded
          /\ call' = [call EXCEPT ![c].issued = Append(@, Issued("ReleaseCollection", NoArgs, err)),
                                  ![c].err = ret,
                                  ![c].pc = IF ret # Nil THEN "done" ELSE "nm_has"]
  /\ UNCHANGED <<exists, indexed, rows, handle, active, nops>>

\* createCollectionIfNotExists up to m.client.HasCollection and its branches.
NewMilvusHas(c) ==
  /\ AtPc(c, "nm_has")
  /\ \E fail \in BOOLEAN :
       LET err == IF fail THEN "ErrHasCollection" ELSE Nil
           has == IF fail THEN FALSE ELSE exists
           todo == AfterHasCollection(has, err)
       IN /\ call' = [call EXCEPT ![c].issued = Append(@, Issued("HasCollection", [has |-> has], err)),
                                  ![c].err = IF todo = "fail" THEN err ELSE Nil,
                                  ![c].m = (todo = "keep"),
                                  ![c].pc = IF todo = "create" THEN "nm_create" ELSE "done"]
          /\ handle' = (handle \/ todo = "keep")
  /\ UNCHANGED <<exists, loaded, indexed, rows, active, nops>>

\* The schema createCollectionIfNotExists builds.
Schema ==
  [CollectionName |-> Cfg.CollectionName, AutoID |-> FALSE,
   Fields |-> << [Name |-> idCol, DataType |-> "Int64", PrimaryKey |-> TRUE],
                 [Name |-> titleCol, DataType |-> "VarChar", MaxLength |-> 50],
                 [Name |-> headingCol, DataType |-> "VarChar", MaxLength |-> 50],
                 [Name |-> contentCol, DataType |-> "VarChar", MaxLength |-> 5000],
                 [Name |-> embeddingCol, DataType |-> "FloatVector", Dim |-> Cfg.Dim] >>]

\* m.client.CreateCollection, and NewMilvus's return. The server refuses to
\* create a collection that exists by now (another caller created it).
NewMilvusCreate(c) ==
  /\ AtPc(c, "nm_create")
  /\ \E fail \in BOOLEAN :
       LET err == IF fail \/ exists THEN "ErrCreateCollection" ELSE Nil
       IN /\ exists' = (exists \/ err = Nil)
          /\ rows' = IF err = Nil THEN <<>> ELSE rows
          /\ loaded' = IF err = Nil THEN FALSE ELSE loaded
          /\ indexed' = IF err = Nil THEN FALSE ELSE indexed
          /\ call' = [call EXCEPT ![c].issued = Append(@, Issued("CreateCollection", [schema |-> Schema], err)),
                                  ![c].err = err,
                                  ![c].m = (err = Nil),
                                  ![c].pc = "done"]
          /\ handle' = (handle \/ err = Nil)
  /\ UNCHANGED <<active, nops>>

\* The inputs the callers choose from. Two callers at once are there for the
\* order of their client calls: they get one input of each kind, the largest.
Concurrent == Cardinality(active) > 1

SectionChoices ==
  IF Concurrent THEN { s \in SectionInputs : Len(s) = MaxSections /\ s[1] = Corpus[1] }
  ELSE SectionInputs

FileChoices ==
  IF Concurrent THEN { f \in FileNames : f[1] = "sections.json" /\ f[2] \in SectionChoices }
  ELSE FileNames

EmbeddingChoices == IF Concurrent THEN { Corpus[1].Embedding } ELSE QueryEmbeddings

TopKChoices == IF Concurrent THEN { MaxTopK } ELSE TopKs

AnswerChoices(all) ==
  IF Concurrent THEN { r \in all : Len(r) = 0 \/ r[1].ResultCount = MaxResults } ELSE all

\* ---------------------------------------------------------- Insert ------
\* A variant that numbers the rows from 1.
RowIdOneBased(i) == i + 1

\* The primary key Insert gives the section at (0-based) position i: int64(i).
RowId(i) == i

\* The loop of Insert over sections[from..], appending to the five slices.
RECURSIVE InsertLoop(_, _, _)
InsertLoop(sections, from, acc) ==
  IF from > Len(sections) THEN acc
  ELSE LET section == sections[from]
       IN InsertLoop(sections, from + 1,
            [ids |-> Append(acc.ids, RowId(from - 1)),
             titles |-> Append(acc.titles, section.Title),
             headings |-> Append(acc.headings, section.Heading),
             contents |-> Append(acc.contents, section.Content),
             embeddings |-> Append(acc.embeddings, Float64ToNumber(section.Embedding))])

\* The five columns Insert hands to the bulk insert, in argument order.
InsertColumns(sections) ==
  LET s == InsertLoop(sections, 1,
             [ids |-> <<>>, titles |-> <<>>, headings |-> <<>>, contents |-> <<>>, embeddings |-> <<>>])
  IN << [name |-> idCol, type |-> "Int64", values |-> s.ids],
        [name |-> titleCol, type |-> "VarChar", values |-> s.titles],
        [name |-> headingCol, type |-> "VarChar", values |-> s.headings],
        [name |-> contentCol, type |-> "VarChar", values |-> s.contents],
        [name |-> embeddingCol, type |-> "FloatVector", dim |-> Cfg.Dim, values |-> s.embeddings] >>

\* A variant that goes on after a failed call.
InsertAfterIgnoreErr(err, next) == next

\* Where Insert goes after a client call returned err: on to next, or out.
InsertAfter(err, next) == IF err # Nil THEN "done" ELSE next

\* The rows the server stores for a bulk insert of the five columns.
RowsOf(cols) ==
  [i \in 1..Len(cols[1].values) |->
     [id |-> cols[1].values[i], title |-> cols[2].values[i], heading |-> cols[3].values[i],
      content |-> cols[4].values[i], embedding |-> cols[5].values[i]]]

\* Insert(sections) up to m.client.ReleaseCollection, entered for operation op.
InsertEnter(c, op, arg, sections) ==
  /\ \E fail \in BOOLEAN :
       LET err == IF fail \/ ~exists THEN "ErrReleaseCollection" ELSE Nil
       IN /\ loaded' = IF err = Nil THEN FALSE ELSE loaded
          /\ call' = [call EXCEPT ![c] =
                        [NoCall EXCEPT !.op = op, !.arg = arg, !.sections = sections,
                                       !.issued = <<Issued("ReleaseCollection", NoArgs, err)>>,
                                       !.err = err,
                                       !.pc = InsertAfter(err, "ins_index")]]
  /\ nops' = nops + 1
  /\ UNCHANGED <<exists, indexed, rows, handle, active>>

\* A call of Insert.
Insert(c) ==
  /\ CanStart(c) /\ handle
  /\ \E sections \in SectionChoices : InsertEnter(c, "Insert", sections, sections)

\* A variant that does not look at the error of json.Unmarshal.
LoadJSONErrorReadOnly(file, parsed) == file.err

\* The error LoadJSON returns before it reaches Insert, Nil when it reaches it.
LoadJSONError(file, parsed) == IF file.err # Nil THEN file.err ELSE parsed.err

\* A call of LoadJSON: read, parse, and Insert.
LoadJSON(c) ==
  /\ CanStart(c) /\ handle
  /\ \E filename \in FileChoices :
       LET file == ReadFile(filename)
           parsed == Unmarshal(file.data)
           err == LoadJSONError(file, parsed)
       IN IF err # Nil
          THEN /\ call' = [call EXCEPT ![c] =
                             [NoCall EXCEPT !.op = "LoadJSON", !.arg = filename, !.err = err]]
               /\ nops' = nops + 1
               /\ UNCHANGED <<exists, loaded, indexed, rows, handle, active>>
          ELSE InsertEnter(c, "LoadJSON", filename, parsed.sections)

\* Insert from the column construction to m.client.CreateIndex.
InsertCreateIndex(c) ==
  /\ AtPc(c, "ins_index")
  /\ \E fail \in BOOLEAN :
       LET err == IF fail \/ ~exists THEN "ErrCreateIndex" ELSE Nil
       IN /\ indexed' = (indexed \/ err = Nil)
          /\ call' = [call EXCEPT ![c].issued = Append(@, Issued("CreateIndex",
                                      [field |-> embeddingCol, index |-> "IVF_FLAT", metric |-> "L2",
                                       nlist |-> 128, async |-> FALSE], err)),
                                  ![c].err = err,
                                  ![c].pc = InsertAfter(err, "ins_bulk")]
  /\ UNCHANGED <<exists, loaded, rows, handle, active, nops>>

\* m.client.Insert with the five columns, and Insert's return.
InsertBulk(c) ==
  /\ AtPc(c, "ins_bulk")
  /\ \E fail \in BOOLEAN :
       LET err == IF fail \/ ~exists THEN "ErrInsert" ELSE Nil
           cols == InsertColumns(call[c].sections)
       IN /\ rows' = IF err = Nil THEN rows \o RowsOf(cols) ELSE rows
          /\ call' = [call EXCEPT ![c].issued = Append(@, Issued("Insert",
                                      [partition |-> "", columns |-> cols], err)),
                                  ![c].err = err,
                                  ![c].pc = "done"]
  /\ UNCHANGED <<exists, loaded, indexed, handle, active, nops>>

\* ----------------------------------------------------------- Query ------
OutputFields == <<idCol, titleCol, headingCol, contentCol>>

\* The pointer no column was assigned to.
NilColumn == [name |-> "", type |-> "nil", values |-> <<>>]

\* The switch of constructSimilaritiesFromResult on one field: the column
\* variable named want takes the field when name and Go type both match.
TakeField(cur, field, want, type) ==
  IF field.name = want /\ field.type = type THEN field ELSE cur

\* The first loop of constructSimilaritiesFromResult over result.Fields[from..].
RECURSIVE ScanFields(_, _, _)
ScanFields(fields, from, cols) ==
  IF from > Len(fields) THEN cols
  ELSE ScanFields(fields, from + 1,
         [iCol |-> TakeField(cols.iCol, fields[from], idCol, "Int64"),
          tCol |-> TakeField(cols.tCol, fields[from], titleCol, "VarChar"),
          hCol |-> TakeField(cols.hCol, fields[from], headingCol, "VarChar"),
          cCol |-> TakeField(cols.cCol, fields[from], contentCol, "VarChar")])

\* A variant that rejects the last index.
ValueByIdxOffByOne(col, i) ==
  IF col = NilColumn THEN [panic |-> TRUE, err |-> Nil, val |-> 0]
  ELSE IF i < 0 \/ i + 1 >= Len(col.values) THEN [panic |-> FALSE, err |-> "index out of range", val |-> 0]
  ELSE [panic |-> FALSE, err |-> Nil, val |-> col.values[i + 1]]

\* Column.ValueByIdx(i), i 0-based: a nil receiver panics in Len(), an index
\* past the end is an error.
ValueByIdx(col, i) ==
  IF col = NilColumn THEN [panic |-> TRUE, err |-> Nil, val |-> 0]
  ELSE IF i < 0 \/ i >= Len(col.values) THEN [panic |-> FALSE, err |-> "index out of range", val |-> 0]
  ELSE [panic |-> FALSE, err |-> Nil, val |-> col.values[i + 1]]

\* The second loop of constructSimilaritiesFromResult from (0-based) row i on.
RECURSIVE BuildSimilarities(_, _, _, _)
BuildSimilarities(result, cols, i, similarities) ==
  IF i >= result.ResultCount THEN [panic |-> FALSE, err |-> Nil, sims |-> similarities]
  ELSE LET iVal == ValueByIdx(cols.iCol, i)
           tVal == ValueByIdx(cols.tCol, i)
           hVal == ValueByIdx(cols.hCol, i)
           cVal == ValueByIdx(cols.cCol, i)
           first == IF iVal.panic \/ iVal.err # Nil THEN iVal
                    ELSE IF tVal.panic \/ tVal.err # Nil THEN tVal
                    ELSE IF hVal.panic \/ hVal.err # Nil THEN hVal
                    ELSE cVal
       IN IF first.panic THEN [panic |-> TRUE, err |-> Nil, sims |-> <<>>]
          ELSE IF first.err # Nil THEN [panic |-> FALSE, err |-> first.err, sims |-> <<>>]
          ELSE IF i >= Len(result.Scores) THEN [panic |-> TRUE, err |-> Nil, sims |-> <<>>]
          ELSE BuildSimilarities(result, cols, i + 1,
                 Append(similarities,
                   [Section |-> [Title |-> tVal.val, Heading |-> hVal.val, Content |-> cVal.val,
                                 Embedding |-> <<>>],
                    ID |-> iVal.val,
                    Score |-> result.Scores[i + 1]]))

constructSimilaritiesFromResult(result) ==
  BuildSimilarities(result,
    ScanFields(result.Fields, 1,
      [iCol |-> NilColumn, tCol |-> NilColumn, hCol |-> NilColumn, cCol |-> NilColumn]),
    0, <<>>)

\* Query after m.client.Search returned (result, err).
QueryReturn(result, err) ==
  IF err # Nil THEN [panic |-> FALSE, err |-> err, sims |-> <<>>]
  ELSE IF Len(result) = 0 THEN [panic |-> TRUE, err |-> Nil, sims |-> <<>>]
  ELSE constructSimilaritiesFromResult(result[1])

\* A variant that asks for one result whatever topK is.
SearchArgsFixedTopK(embedding, topK) ==
  [partitions |-> <<>>, expr |-> "", outputFields |-> OutputFields,
   vectors |-> << Float64ToNumber(embedding) >>, vectorField |-> embeddingCol,
   metric |-> "L2", topK |-> 1]

\* The arguments Query gives m.client.Search.
SearchArgs(embedding, topK) ==
  [partitions |-> <<>>, expr |-> "", outputFields |-> OutputFields,
   vectors |-> << Float64ToNumber(embedding) >>, vectorField |-> embeddingCol,
   metric |-> "L2", topK |-> topK]

\* A variant that searches after a failed LoadCollection.
QueryAfterLoadIgnoreErr(err) == "q_search"

\* Where Query goes after LoadCollection returned err.
QueryAfterLoad(err) == IF err # Nil THEN "done" ELSE "q_search"

\* The answers of the server to a search. A result set has ResultCount rows
\* and as many scores; its columns come in any order, hold ResultCount values
\* or one more, and at most one of them is missing, of another column type
\* or one value short.
ColumnType(name) == IF name = idCol THEN "Int64" ELSE "VarChar"

ColumnValues(name, n) ==
  [i \in 1..n |-> IF name = idCol THEN 40 + i ELSE name \o ToString(i)]

Defects ==
  {<<"none", "none">>} \cup
  { <<name, kind>> : name \in {idCol, titleCol, headingCol, contentCol},
                     kind \in {"missing", "wrongtype", "short"} }

ResultColumn(name, rc, slack, defect) ==
  [name |-> name,
   type |-> IF defect = <<name, "wrongtype">>
            THEN (IF name = idCol THEN "VarChar" ELSE "Int64")
            ELSE ColumnType(name),
   values |-> ColumnValues(name,
                IF defect = <<name, "short">> THEN (IF rc > 0 THEN rc - 1 ELSE 0)
                ELSE rc + slack)]

FieldOrders == { <<1, 2, 3, 4>>, <<4, 3, 2, 1>>, <<3, 1, 4, 2>> }

ResultFields(order, rc, slack, defect) ==
  LET all == [k \in 1..4 |-> ResultColumn(OutputFields[order[k]], rc, slack, defect)]
      kept == SelectSeq(all, LAMBDA col : defect # <<col.name, "missing">>)
  IN IF slack = 1
     THEN << [name |-> embeddingCol, type |-> "FloatVector", values |-> <<>>] >> \o kept
     ELSE kept

SearchResponses ==
  { <<>> } \cup
  { << [ResultCount |-> rc,
        Fields |-> ResultFields(order, rc, slack, defect),
        Scores |-> [i \in 1..rc |-> 100 + i]] >> :
      rc \in 0..MaxResults, order \in FieldOrders, slack \in 0..1, defect \in Defects }

\* A call of Query, up to m.client.LoadCollection.
QueryLoad(c) ==
  /\ CanStart(c) /\ handle
  /\ \E embedding \in EmbeddingChoices, topK \in TopKChoices, fail \in BOOLEAN :
       LET err == IF fail \/ ~exists THEN "ErrLoadCollection" ELSE Nil
       IN /\ loaded' = IF err = Nil THEN TRUE ELSE loaded
          /\ call' = [call EXCEPT ![c] =
                        [NoCall EXCEPT !.op = "Query",
                                       !.arg = [embedding |-> embedding, topK |-> topK],
                                       !.issued = <<Issued("LoadCollection", [async |-> FALSE], err)>>,
                                       !.err = err,
                                       !.pc = QueryAfterLoad(err)]]
  /\ nops' = nops + 1
  /\ UNCHANGED <<exists, indexed, rows, handle, active>>

\* The step of caller c in which Search answers (result, err): m.client.Search
\* and the rest of Query.
QuerySearchWith(c, result, err) ==
  /\ AtPc(c, "q_search")
  /\ LET ret == QueryReturn(result, err)
     IN call' = [call EXCEPT ![c].issued = Append(@, Issued("Search",
                                  SearchArgs(call[c].arg.embedding, call[c].arg.topK), err)),
                             ![c].result = result,
                             ![c].err = ret.err,
                             ![c].sims = ret.sims,
                             ![c].panic = ret.panic,
                             ![c].pc = "done"]
  /\ UNCHANGED <<exists, loaded, indexed, rows, handle, active, nops>>

\* The answers the server gives in the model of the whole adapter: the columns
\* in the order asked for, complete or with one of two defects.
SearchAnswers ==
  { <<>> } \cup
  { << [ResultCount |-> rc,
        Fields |-> ResultFields(<<1, 2, 3, 4>>, rc, 0, defect),
        Scores |-> [i \in 1..rc |-> 100 + i]] >> :
      rc \in 0..MaxResults,
      defect \in {<<"none", "none">>, <<contentCol, "missing">>, <<titleCol, "short">>} }

\* The server refuses to search a collection that is not loaded.
QuerySearch(c) ==
  \/ QuerySearchWith(c, <<>>, "ErrSearch")
  \/ /\ loaded
     /\ \E result \in AnswerChoices(SearchAnswers) : QuerySearchWith(c, result, Nil)

\* ------------------------------------------------------------ system ----
Next ==
  \E c \in Callers :
    \/ NewMilvusConnect(c)
    \/ NewMilvusRelease(c)
    \/ NewMilvusHas(c)
    \/ NewMilvusCreate(c)
    \/ Insert(c)
    \/ LoadJSON(c)
    \/ InsertCreateIndex(c)
    \/ InsertBulk(c)
    \/ QueryLoad(c)
    \/ QuerySearch(c)

Spec == Init /\ [][Next]_vars

\* The adapter used by two callers at once, or by one.
InitConc ==
  /\ exists \in BOOLEAN
  /\ loaded \in (IF exists THEN BOOLEAN ELSE {FALSE})
  /\ indexed = FALSE
  /\ rows \in (IF exists THEN {<<>>, OldRows} ELSE {<<>>})
  /\ handle = FALSE
  /\ active \in {{"a"}, {"a", "b"}}
  /\ call = [c \in Callers |-> NoCall]
  /\ nops = 0

SpecConc == InitConc /\ [][Next]_vars

\* Query at the point where Search answers, for every answer of the server.
InitReshape ==
  /\ exists = TRUE
  /\ loaded = TRUE
  /\ indexed \in BOOLEAN
  /\ rows \in {<<>>, OldRows}
  /\ handle = TRUE
  /\ active = {"a"}
  /\ \E embedding \in QueryEmbeddings, topK \in TopKs :
       call = [c \in Callers |->
                 IF c = "a"
                 THEN [NoCall EXCEPT !.op = "Query",
                                     !.arg = [embedding |-> embedding, topK |-> topK],
                                     !.issued = <<Issued("LoadCollection", [async |-> FALSE], Nil)>>,
                                     !.pc = QueryAfterLoad(Nil)]
                 ELSE NoCall]
  /\ nops = 2

NextReshape ==
  \E c \in Callers :
    \/ QuerySearchWith(c, <<>>, "ErrSearch")
    \/ \E result \in SearchResponses : QuerySearchWith(c, result, Nil)

SpecReshape == InitReshape /\ [][NextReshape]_vars

\* ============================================================ claims ====
Done(c) == call[c].pc = "done"

Log(c) == call[c].issued

Positions(c, name) == { i \in 1..Len(Log(c)) : Log(c)[i].name = name }

\* Caller c takes a step of its operation between this state and the next.
Steps(c) == call'[c] # call[c]

\* The float32 nearest to the float64 x: x itself when float32 holds it, else
\* a neighbour of x with an even significand.
IsFloat32Of(y, x) ==
  /\ (x <= Pow24 => y = x)
  /\ (x > Pow24 => (y % 2 = 0 /\ y - x \in {-1, 0, 1}))

IsFloat32Vector(v, e) ==
  /\ Len(v) = Len(e)
  /\ \A j \in 1..Len(e) : IsFloat32Of(v[j], e[j])

\* ---- C1 ----
C1Log(c) ==
  call[c].op = "NewMilvus" =>
    /\ \A i \in Positions(c, "HasCollection") :
         i > 1 /\ Log(c)[i - 1].name = "ReleaseCollection"
    /\ \A i \in Positions(c, "CreateCollection") :
         /\ i > 1
         /\ Log(c)[i - 1].name = "HasCollection"
         /\ Log(c)[i - 1].err = Nil
         /\ Log(c)[i - 1].args.has = FALSE
    /\ \A i \in Positions(c, "HasCollection") :
         (Done(c) /\ Log(c)[i].err = Nil /\ Log(c)[i].args.has = FALSE) =>
           (i < Len(Log(c)) /\ Log(c)[i + 1].name = "CreateCollection")
    /\ Cardinality(Positions(c, "CreateCollection")) <= 1
    /\ (Done(c) /\ Log(c)[1].err = Nil) =>
         /\ Len(Log(c)) >= 3
         /\ Log(c)[2].name = "ReleaseCollection"
         /\ Log(c)[3].name = "HasCollection"
    /\ \A i \in 1..Len(Log(c)) : Log(c)[i].coll = Cfg.CollectionName
    /\ (Done(c) /\ call[c].m) => (call[c].err = Nil /\ exists)
    /\ (Done(c) /\ call[c].err = Nil) => call[c].m

\* C1: NewMilvus issues ReleaseCollection, then HasCollection, and issues
\* CreateCollection exactly when HasCollection answered, without error, that
\* the collection does not exist. When it returns a handle without error the
\* collection exists. No step of NewMilvus on a collection that exists makes
\* it cease to exist or changes the rows it holds.
C1_ProvisionsOnlyIfAbsent ==
  [][ \A c \in Callers :
        /\ C1Log(c)'
        /\ (Steps(c) /\ call'[c].op = "NewMilvus" /\ exists) => (exists' /\ rows' = rows) ]_vars

\* A NewMilvus that found the collection with its old rows, and kept them.
C1_Witness ==
  \E c \in Callers :
    /\ call[c].op = "NewMilvus" /\ Done(c) /\ call[c].m
    /\ Positions(c, "HasCollection") # {} /\ Positions(c, "CreateCollection") = {}
    /\ rows = OldRows

\* ---- C2 ----
\* C2: an Insert that returns without error has issued exactly
\* ReleaseCollection, CreateIndex on the embedding column and one bulk Insert
\* with one entry per section in every column, in this order, on the
\* configured collection; a bulk Insert is only ever issued right after a
\* CreateIndex that succeeded, and at most once per call.
C2_InsertIssuesThreeCallsInOrder ==
  \A c \in Callers :
    call[c].op \in {"Insert", "LoadJSON"} =>
      /\ (Done(c) /\ call[c].err = Nil) =>
           /\ Len(Log(c)) = 3
           /\ Log(c)[1].name = "ReleaseCollection" /\ Log(c)[1].err = Nil
           /\ Log(c)[2].name = "CreateIndex" /\ Log(c)[2].err = Nil
           /\ Log(c)[2].args.field = embeddingCol
           /\ Log(c)[3].name = "Insert" /\ Log(c)[3].err = Nil
           /\ \A k \in 1..5 : Len(Log(c)[3].args.columns[k].values) = Len(call[c].sections)
           /\ \A i \in 1..3 : Log(c)[i].coll = Cfg.CollectionName
      /\ \A i \in Positions(c, "Insert") :
           i > 1 /\ Log(c)[i - 1].name = "CreateIndex" /\ Log(c)[i - 1].err = Nil
      /\ Cardinality(Positions(c, "Insert")) <= 1

\* An Insert of several sections that returned without error.
C2_Witness ==
  \E c \in Callers :
    /\ call[c].op = "Insert" /\ Done(c) /\ call[c].err = Nil
    /\ Len(call[c].sections) >= 2 /\ Len(Log(c)) = 3

\* ---- C3 ----
\* What C3 says of every column but the embedding column.
C3Scalars(cols, sections) ==
  /\ Len(cols) = 5
  /\ <<cols[1].name, cols[2].name, cols[3].name, cols[4].name, cols[5].name>>
       = <<idCol, titleCol, headingCol, contentCol, embeddingCol>>
  /\ \A k \in 1..5 : Len(cols[k].values) = Len(sections)
  /\ \A i \in 1..Len(sections) :
       /\ cols[1].values[i] = i - 1
       /\ cols[2].values[i] = sections[i].Title
       /\ cols[3].values[i] = sections[i].Heading
       /\ cols[4].values[i] = sections[i].Content

\* C3 as stated: the five columns of the bulk insert have n entries each, and
\* row i carries id = i and the title, heading, content and embedding of
\* sections[i].
C3_Original ==
  \A c \in Callers : \A p \in Positions(c, "Insert") :
    LET cols == Log(c)[p].args.columns
        sections == call[c].sections
    IN /\ C3Scalars(cols, sections)
       /\ \A i \in 1..Len(sections) : cols[5].values[i] = sections[i].Embedding

\* C3, amended: the five columns of the bulk insert have n entries each, and
\* row i carries id = i, the title, heading and content of sections[i], and
\* the embedding of sections[i] converted component by component to float32
\* (the nearest float32, which is the component itself only when float32 can
\* hold it). The ids do not depend on the rows the collection holds.
C3_ColumnsCarrySections ==
  \A c \in Callers : \A p \in Positions(c, "Insert") :
    LET cols == Log(c)[p].args.columns
        sections == call[c].sections
    IN /\ C3Scalars(cols, sections)
       /\ \A i \in 1..Len(sections) : IsFloat32Vector(cols[5].values[i], sections[i].Embedding)

\* A bulk insert of several sections into a collection that held rows already.
C3_Witness ==
  \E c \in Callers : \E p \in Positions(c, "Insert") :
    /\ Len(call[c].sections) >= 2
    /\ Log(c)[p].err = Nil
    /\ Len(rows) > Len(call[c].sections)

\* ---- C4 ----
\* What C4 says of Query's calls but for the query vector.
C4Calls(c) ==
  /\ Len(Log(c)) <= 2
  /\ Cardinality(Positions(c, "Search")) <= 1
  /\ \A i \in 1..Len(Log(c)) : Log(c)[i].coll = Cfg.CollectionName
  /\ \A p \in Positions(c, "Search") :
       /\ p = 2
       /\ Log(c)[1].name = "LoadCollection" /\ Log(c)[1].err = Nil
       /\ Len(Log(c)[p].args.vectors) = 1
       /\ Log(c)[p].args.topK = call[c].arg.topK
       /\ Log(c)[p].args.vectorField = embeddingCol
       /\ Log(c)[p].args.outputFields = <<idCol, titleCol, headingCol, contentCol>>

\* C4 as stated: Query issues LoadCollection before Search and at most one
\* Search, which carries one query vector, the given embedding, the caller's
\* topK, the embedding column and the four output columns.
C4_Original ==
  \A c \in Callers :
    call[c].op = "Query" =>
      /\ C4Calls(c)
      /\ \A p \in Positions(c, "Search") : Log(c)[p].args.vectors[1] = call[c].arg.embedding

\* C4, amended: as stated, but the query vector is the given embedding
\* converted component by component to float32.
C4_QueryLoadsThenSearchesOnce ==
  \A c \in Callers :
    call[c].op = "Query" =>
      /\ C4Calls(c)
      /\ \A p \in Positions(c, "Search") :
           IsFloat32Vector(Log(c)[p].args.vectors[1], call[c].arg.embedding)

\* A Query with topK above 1 that has issued its Search.
C4_Witness ==
  \E c \in Callers :
    /\ call[c].op = "Query" /\ Positions(c, "Search") = {2}
    /\ call[c].arg.topK = MaxTopK
    /\ Log(c)[2].err = Nil

\* ---- C5 ----
\* The fields of result that are the column of the schema called name.
ColumnsNamed(result, name) ==
  { k \in 1..Len(result.Fields) :
      /\ result.Fields[k].name = name
      /\ result.Fields[k].type = (IF name = idCol THEN "Int64" ELSE "VarChar") }

ColumnNamed(result, name) ==
  result.Fields[CHOOSE k \in ColumnsNamed(result, name) : TRUE]

\* The result holds the four columns, each with at least ResultCount values.
Complete(result) ==
  \A name \in {idCol, titleCol, headingCol, contentCol} :
    /\ ColumnsNamed(result, name) # {}
    /\ Len(ColumnNamed(result, name).values) >= result.ResultCount

\* Caller c ran Query, and Search answered it with some result set.
Reshaped(c) ==
  /\ call[c].op = "Query" /\ Done(c)
  /\ Positions(c, "Search") # {}
  /\ \A p \in Positions(c, "Search") : Log(c)[p].err = Nil
  /\ Len(call[c].result) >= 1

\* C5: a result that holds the id, title, heading and content columns, each
\* with at least ResultCount values, is reshaped into exactly ResultCount
\* records, record i carrying id[i], title[i], heading[i], content[i] and
\* Scores[i], whatever the order of the columns among the fields; a result
\* with ResultCount = 0 gives the empty sequence and no error.
C5_ReshapeKeepsRows ==
  \A c \in Callers :
    Reshaped(c) =>
      LET result == call[c].result[1]
      IN /\ result.ResultCount = 0 =>
              (~call[c].panic /\ call[c].err = Nil /\ call[c].sims = <<>>)
         /\ Complete(result) =>
              /\ ~call[c].panic
              /\ call[c].err = Nil
              /\ Len(call[c].sims) = result.ResultCount
              /\ \A i \in 1..result.ResultCount :
                   /\ call[c].sims[i].ID = ColumnNamed(result, idCol).values[i]
                   /\ call[c].sims[i].Section.Title = ColumnNamed(result, titleCol).values[i]
                   /\ call[c].sims[i].Section.Heading = ColumnNamed(result, headingCol).values[i]
                   /\ call[c].sims[i].Section.Content = ColumnNamed(result, contentCol).values[i]
                   /\ call[c].sims[i].Score = result.Scores[i]

\* A complete result of several rows whose columns came in reverse order.
C5_Witness ==
  \E c \in Callers :
    /\ Reshaped(c)
    /\ Complete(call[c].result[1])
    /\ call[c].result[1].ResultCount >= 2
    /\ call[c].result[1].Fields[1].name = contentCol
    /\ Len(call[c].sims) = call[c].result[1].ResultCount

\* ---- C6 ----
\* C6 as stated: in every operation, when a client call returned an error, the
\* operation returns that same error and does not report success.
C6_Original ==
  \A c \in Callers : \A i \in 1..Len(Log(c)) :
    (Done(c) /\ Log(c)[i].err # Nil) =>
      (call[c].err = Log(c)[i].err /\ ~call[c].m)

\* C6, amended: in every operation, when a client call returned an error, the
\* operation returns that same error and does not report success, except for
\* the ReleaseCollection call of NewMilvus, whose error is discarded.
C6_ErrorsPassThrough ==
  \A c \in Callers : \A i \in 1..Len(Log(c)) :
    (Log(c)[i].err # Nil
       /\ ~(call[c].op = "NewMilvus" /\ Log(c)[i].name = "ReleaseCollection")) =>
      /\ Done(c)
      /\ i = Len(Log(c))
      /\ call[c].err = Log(c)[i].err
      /\ ~call[c].m /\ call[c].sims = <<>> /\ ~call[c].panic

\* A NewMilvus whose HasCollection failed, after a ReleaseCollection that
\* succeeded.
C6_Witness ==
  \E c \in Callers :
    /\ call[c].op = "NewMilvus" /\ Done(c)
    /\ \E i \in Positions(c, "HasCollection") :
         Log(c)[i].err # Nil /\ call[c].err = Log(c)[i].err /\ Log(c)[i - 1].err = Nil

\* ---- C7 ----
C7State(c) ==
  call[c].op = "LoadJSON" =>
    IF call[c].arg[1] = "missing.json"
    THEN Done(c) /\ call[c].err = "ErrNotExist" /\ Log(c) = <<>>
    ELSE IF call[c].arg[1] = "malformed.json"
    THEN Done(c) /\ call[c].err = "ErrSyntax" /\ Log(c) = <<>>
    ELSE /\ call[c].sections = call[c].arg[2]
         /\ Positions(c, "ReleaseCollection") = {1}
         /\ Cardinality(Positions(c, "Insert")) <= 1
         /\ \A p \in Positions(c, "Insert") :
              /\ Len(Log(c)[p].args.columns[1].values) = Len(call[c].arg[2])
              /\ \A i \in 1..Len(call[c].arg[2]) :
                   Log(c)[p].args.columns[2].values[i] = call[c].arg[2][i].Title
         /\ Done(c) => call[c].err = Log(c)[Len(Log(c))].err
         /\ (Done(c) /\ call[c].err = Nil) => Positions(c, "Insert") = {3}

\* C7: when the file cannot be read or is no JSON sequence of sections,
\* LoadJSON returns that error, issues no client call and leaves the
\* collection as it was; otherwise it runs Insert once with the parsed
\* sections and returns what Insert returns.
C7_LoadJSONForwardsToInsert ==
  [][ \A c \in Callers :
        /\ C7State(c)'
        /\ (Steps(c) /\ call'[c].op = "LoadJSON" /\ call'[c].arg[1] # "sections.json") =>
             UNCHANGED <<exists, loaded, indexed, rows>> ]_vars

\* A LoadJSON of a file that is no JSON, on a collection that holds rows.
C7_Witness ==
  \E c \in Callers :
    /\ call[c].op = "LoadJSON" /\ call[c].arg[1] = "malformed.json" /\ Done(c)
    /\ rows # <<>>

\* ---- C8 ----
C8Log(c) ==
  /\ call[c].op \in {"Insert", "LoadJSON"} =>
       \A i \in 1..Len(Log(c)) : Log(c)[i].err # Nil => (i = Len(Log(c)) /\ Done(c))
  /\ call[c].op = "Query" =>
       (Log(c)[1].err # Nil =>
          (Len(Log(c)) = 1 /\ Done(c) /\ call[c].sims = <<>> /\ call[c].err # Nil))

\* C8: Insert and Query stop at the first client call that fails: no
\* CreateIndex and no bulk Insert after a failed ReleaseCollection, no bulk
\* Insert after a failed CreateIndex, no Search and no similarities after a
\* failed LoadCollection. The rows of the collection change only in the step
\* of a bulk Insert or a CreateCollection that succeeds.
C8_StopAtFirstFailure ==
  [][ /\ \A c \in Callers : C8Log(c)'
      /\ rows' # rows =>
           \E c \in Callers :
             /\ Len(Log(c)') = Len(Log(c)) + 1
             /\ Log(c)'[Len(Log(c)')].name \in {"Insert", "CreateCollection"}
             /\ Log(c)'[Len(Log(c)')].err = Nil ]_vars

\* An Insert of sections that stopped at a failed CreateIndex.
C8_Witness ==
  \E c \in Callers :
    /\ call[c].op = "Insert" /\ Done(c) /\ Len(call[c].sections) >= 1
    /\ Len(Log(c)) = 2 /\ Log(c)[2].name = "CreateIndex" /\ Log(c)[2].err # Nil

\* ---- C9 ----
\* Caller c issues its bulk Insert only on a released collection and its
\* Search only on a loaded one.
C9Step(c) ==
  /\ (call[c].pc = "ins_bulk" /\ Steps(c)) => ~loaded
  /\ (call[c].pc = "q_search" /\ Steps(c)) => loaded

\* C9 as stated: also when the client calls of different callers interleave,
\* the collection is released when a bulk Insert is issued and loaded when a
\* Search is issued.
C9_Original == [][ \A c \in Callers : C9Step(c) ]_vars

\* C9, amended: when the calls on the handle are made one after the other
\* (no call starts before the previous one has returned), the collection is
\* released when a bulk Insert is issued and loaded when a Search is issued.
C9_ReleasedAtInsertLoadedAtSearch ==
  [][ ~Concurrent => \A c \in Callers : C9Step(c) ]_vars

\* One caller whose Query has searched the collection after an Insert stored
\* rows in it.
C9_Witness ==
  /\ ~Concurrent
  /\ Len(rows) >= 2
  /\ \E c \in Callers :
       call[c].op = "Query" /\ Positions(c, "Search") = {2} /\ Log(c)[2].err = Nil

\* ---- C10 ----
\* C10: Query ends by returning similarities or an error, never by crashing,
\* whatever Search answered.
C10_QueryNeverCrashes == \A c \in Callers : ~call[c].panic

====
